---- MODULE Spec2Model ----
(***************************************************************************)
(* The packet pipeline and session state of aprsd-rich-cli-extension:      *)
(* the chat command (cmds/chat.py) and the listen command (cmds/listen.py).*)
(*                                                                         *)
(* The Textual widget tree is modelled by what the code reads and writes   *)
(* of it: the TabPanes of the TabbedContent in mount order (tabs), the     *)
(* panes whose VerticalScroll child has been composed into the DOM         *)
(* (composed), the children of every scroll view (children) and the active *)
(* tab (active).  A widget id is a tuple, e.g. <<"tab", "A">>.             *)
(***************************************************************************)
EXTENDS Integers, Sequences, FiniteSets, TLC

\* ------------------------------------------------------------------ bounds
MaxPackets == 2      \* packets put on the display queue in one run
MaxCount == 4        \* dequeues of the chat display loop in one run
MaxInbound == 2      \* with the AddChatScreen: packets the classifier hands over
MaxSends == 1        \* with the AddChatScreen: messages the operator submits
MaxTxSends == 3      \* messages the operator submits in a run of the TX thread
MaxRx == 4           \* packets the receive thread delivers in a listen run
MaxFilterLen == 3    \* characters of a filter text the operator types
MaxCapPackets == 12  \* packets of a run that fills a history past the cap
MaxCapCount == 14    \* dequeues of the chat display loop in such a run
MaxCapQueue == 3      \* packets waiting on the display queue in such a run
MaxThreads == 3      \* objects in the thread registry
MaxLiveFilterLen == 1 \* characters of a filter text typed while packets flow
MaxFanInbound == 1   \* inbound messages in a run of the submit path
MaxFanSends == 2     \* messages the operator submits in such a run
MaxFanCount == 4     \* dequeues of the chat display loop in such a run
MaxTicks == 2        \* ticks of check_connection counted after a filter change
MaxPipePackets == 13 \* packets received in a listen run that fills the view past the cap
MaxPipeRejects == 1  \* packets of such a run that the filter rejects
MaxPipeQueue == 2    \* packets waiting on the inbound queue in such a run

\* --------------------------------------------------------------- constants
HistoryCap == 10     \* chat.py:595, listen.py:498

CONF_callsign == "ME"

\* Characters of a filter text, and the filter arguments of a run.
FilterChars == {"m", ","}
FilterArgs == {<< <<"m">> >>, << <<"m">>, <<"m">> >>}

\* Callsigns as they appear in received packets, and what the operator may
\* type into the AddChatScreen input.
Senders == {"A", "a", "B"}
MsgNos == {1, 2}
AddInputs == {"A", " b", ""}
Correspondents == {"A", "B"}

\* str.strip().upper() on the strings above
StripUpper(s) ==
    CASE s = "a" -> "A"
      [] s = " b" -> "B"
      [] OTHER -> s

Range(s) == {s[i] : i \in 1..Len(s)}

NoPacket == [uid |-> 0, from_call |-> "", to_call |-> "", kind |-> "none", msgNo |-> 0]
NoTab == <<>>
NoNote == <<>>

\* ------------------------------------------------------------- chat state
VARIABLES
    processed_queue,     \* APRSChatApp.processed_queue (the display queue)
    tx_queue,            \* APRSChatApp.tx_queue (the outbound queue)
    tabs,                \* callsigns of the TabPanes, in mount order
    composed,            \* callsigns whose VerticalScroll is in the DOM
    children,            \* callsign -> children of its scroll view
    active,              \* TabbedContent.active: a tab id or NoTab
    chat_binding_count,  \* APRSChatApp.chat_binding_count
    packet_count,        \* APRSChatApp.packet_count
    pc,                  \* check_packets: "loop", "mounted" (await mount), "sleep"
    cur,                 \* the packet check_packets holds
    app_state,           \* "running", or "error" once an exception reached the app
    note,                \* what the last check_packets step passed to notify()
    thread_stop,         \* APRSDThread.thread_stop, set by stop_all()
    tx_pc,               \* APRSTXThread.loop: "idle", "send", "dead", "exited"
    tx_cur,              \* the packet APRSTXThread holds
    handed,              \* packets passed to tx.send, in call order
    submitted,           \* packets put on tx_queue, in put order
    msg_counter,         \* the message number prepare(create_msg_number) gave last
    next_uid,            \* identity of the next packet object created
    queued,              \* uids of message packets ever put on processed_queue
    appended             \* uids of message packets ever mounted in a scroll view

\* ----------------------------------------------------------- listen state
VARIABLES
    command,             \* the command that was run: "chat" or "listen"
    packet_queue,        \* threads.packet_queue (the inbound queue)
    listen_queue,        \* APRSListenerApp.processed_queue (the display queue)
    packet_view,         \* children of the VerticalScroll "packet-view"
    listen_count,        \* APRSListenerApp.packet_count
    listen_pc,           \* listen check_packets: "loop", "mounted", "sleep"
    filter,              \* APRSListenerApp.filter (the desired filter, a str)
    client_filter,       \* what aprs_client.get_filter() returns
    rx_uid,              \* identity of the next received packet
    consumed,            \* packets the classifier took off packet_queue, in order
    mount_log,           \* (callsign, uid) of the entries mounted in chat mode, in order
    taken,               \* packets check_packets took off listen_queue, in order
    ticks,               \* ticks of check_connection completed since filter_changed
    mon_pc,              \* the check_connection worker: "running" or "dead"
    conn,                \* text and sub_text of the #app-connection widget
    filter_view,         \* text of the #app-filter widget (listen)
    rx_alive,            \* listen_thread.is_alive()
    tick_seen,           \* what the last completed tick found: "none", "alive", "dead"
    filter_set,          \* whether the last completed listen tick called set_filter
    threads,             \* ServerThreads().threads
    started,             \* the registered objects whose start() has run
    reg_raised           \* what the last call of ServerThreads raised, or "none"

\* The packet logging of the listen command.
VARIABLES
    log_option,          \* the --log-packets flag of the listen command
    log_packets,         \* APRSDListenProcessThread.log_packets
    logged               \* the packets handed to packet_log.log, in order

logVars == <<log_option, log_packets, logged>>

listenVars == <<packet_queue, listen_queue, packet_view, listen_count, listen_pc,
                filter, client_filter, rx_uid, consumed, taken, ticks>>

chatVars == <<processed_queue, tx_queue, tabs, composed, children, active,
              chat_binding_count, packet_count, pc, cur, app_state, note,
              thread_stop, tx_pc, tx_cur, handed, submitted, msg_counter,
              next_uid, queued, appended, mount_log>>

uiVars == <<tabs, composed, children, active, chat_binding_count, packet_count,
            pc, cur, app_state, note>>
txVars == <<tx_pc, tx_cur, handed>>

monVars == <<mon_pc, conn, filter_view, rx_alive, tick_seen, filter_set>>

regVars == <<threads, started, reg_raised>>

vars == <<command, chatVars, listenVars, monVars, regVars, logVars>>

\* What an action of the thread registry leaves alone.
appVars == <<command, chatVars, listenVars, monVars, logVars>>

\* What an action of one command leaves alone of the other, and of the
\* connection monitor.
listenSide == <<command, listenVars, monVars, regVars, logVars>>
chatSide == <<command, chatVars, monVars, regVars>>

\* What an action of the listen command other than the classifier leaves alone.
chatLogSide == <<chatSide, logVars>>

\* ----------------------------------------------------------- filter text
\* A str is the sequence of its characters; the filter argument of the
\* listen command is a tuple of str.
Str(n) == UNION {[1..k -> FilterChars] : k \in 0..n}

RECURSIVE join(_, _)
\* sep.join(items), items a sequence of str
join(sep, items) ==
    IF items = <<>> THEN <<>>
    ELSE IF Len(items) = 1 THEN items[1]
    ELSE items[1] \o sep \o join(sep, Tail(items))

\* What iterating a Python value yields: the elements of a tuple, the
\* characters of a str.
Items(value) ==
    IF value.type = "tuple" THEN value.val
    ELSE [i \in 1..Len(value.val) |-> <<value.val[i]>>]

Tuple(tokens) == [type |-> "tuple", val |-> tokens]
PyStr(chars) == [type |-> "str", val |-> chars]

\* ------------------------------------------------------------- widget ids
\* The handlers of the UI thread run while check_packets is suspended in an
\* await: the mount of line 589 or a sleep of line 616 or 620.
Suspended == app_state = "running" /\ pc \in {"mounted", "sleep"}

get_scroll_id(callsign) == <<callsign, "scroll">>
get_tab_id(callsign) == <<"tab", callsign>>
get_packet_id(packet) == <<"_", packet.msgNo>>

\* The ids of the widgets a lookup can find.
TabIds == {get_tab_id(c) : c \in Range(tabs)}
ScrollIds == {get_scroll_id(c) : c \in composed}

get_tab_for_callsign(callsign) == get_tab_id(callsign) \in TabIds
get_scroll_for_callsign(callsign) == get_scroll_id(callsign) \in ScrollIds

\* str(active_tab).replace("tab-", "")
get_active_callsign == IF active = NoTab THEN "" ELSE active[2]

MyPacketDisplay_acked(packet) ==
    [id |-> get_packet_id(packet), packet |-> packet, acked |-> TRUE]

\* MyPacketDisplay(packet, id=_get_packet_id(packet)); acked = Reactive(False)
MyPacketDisplay(packet) ==
    [id |-> get_packet_id(packet), packet |-> packet, acked |-> FALSE]

ChildIds(callsign) == {children[callsign][i].id : i \in 1..Len(children[callsign])}

\* ---------------------------------------------------------------- packets
MessagePacket(uid, from, to, no) ==
    [uid |-> uid, from_call |-> from, to_call |-> to, kind |-> "msg", msgNo |-> no]
AckPacket(uid, from, to, no) ==
    [uid |-> uid, from_call |-> from, to_call |-> to, kind |-> "ack", msgNo |-> no]

\* listen.py APRSDListenProcessThread.__init__: the log_packets argument is
\* received and the attribute is set to True whatever it holds.
ListenProcessThread_init(option) ==
    /\ log_option = option
    /\ log_packets = TRUE
    /\ logged = <<>>

\* listen.py APRSListenerApp.__init__, run with the given filter arguments
\* and --log-packets flag.
InitListenLog(filter_arg, option) ==
    /\ ListenProcessThread_init(option)
    /\ packet_queue = <<>>
    /\ listen_queue = <<>>
    /\ packet_view = <<>>
    /\ listen_count = 0
    /\ listen_pc = "loop"
    /\ filter = join(<<",">>, filter_arg)
    /\ client_filter = Tuple(filter_arg)
    /\ rx_uid = 1
    /\ ticks = 0
    /\ consumed = <<>>
    /\ taken = <<>>

InitListen(filter_arg) == InitListenLog(filter_arg, FALSE)

InitChat ==
    /\ mount_log = <<>>
    /\ processed_queue = <<>>
    /\ tx_queue = <<>>
    /\ tabs = <<>>
    /\ composed = {}
    /\ children = [c \in Correspondents |-> <<>>]
    /\ active = NoTab
    /\ chat_binding_count = 0
    /\ packet_count = 0
    /\ pc = "loop"
    /\ cur = NoPacket
    /\ app_state = "running"
    /\ note = NoNote
    /\ thread_stop = FALSE
    /\ tx_pc = "idle"
    /\ tx_cur = NoPacket
    /\ handed = <<>>
    /\ submitted = <<>>
    /\ msg_counter = 0
    /\ next_uid = 1
    /\ queued = {}
    /\ appended = {}

\* HeaderConnection and HeaderFilter: text and sub_text are Reactive("");
\* the receive thread is started by on_mount; ServerThreads.__init__.
InitMonitor ==
    /\ threads = <<>>
    /\ started = {}
    /\ reg_raised = "none"
    /\ mon_pc = "running"
    /\ conn = [text |-> "", sub_text |-> ""]
    /\ filter_view = ""
    /\ rx_alive = TRUE
    /\ tick_seen = "none"
    /\ filter_set = FALSE

Init ==
    /\ command = "chat"
    /\ InitMonitor
    /\ InitChat
    /\ InitListen(<< <<"m">> >>)

\* ------------------------------------------------- chat: the classifier
\* APRSDListenProcessThread.process_our_message_packet
process_our_message_packet(queue, packet) == Append(queue, packet)

\* The base class hands a received packet addressed to the operator to the
\* hook above.
RxPackets(uid) ==
    {MessagePacket(uid, f, CONF_callsign, n) : f \in Correspondents, n \in MsgNos}
        \cup {AckPacket(uid, f, CONF_callsign, n) : f \in Correspondents, n \in MsgNos}

InboundPackets(uid) ==
    RxPackets(uid) \cup {MessagePacket(uid, f, CONF_callsign, 1) : f \in Senders}

ChatClassify(packet) ==
    /\ ~thread_stop
    /\ processed_queue' = process_our_message_packet(processed_queue, packet)
    /\ next_uid' = next_uid + 1
    /\ queued' = IF packet.kind = "msg" THEN queued \cup {packet.uid} ELSE queued
    /\ UNCHANGED <<listenSide, mount_log, tx_queue, uiVars, thread_stop, txVars, submitted, msg_counter, appended>>

\* ------------------------------------------------ chat: operator actions
\* APRSChatApp._on_add_chat: the tab state it leaves, and whether add_pane
\* raised DuplicateIds (a pane with that id is already mounted).
on_add_chat(callsign) ==
    LET cs == StripUpper(callsign) IN
    IF cs = ""
    THEN [tabs |-> tabs, active |-> active, count |-> chat_binding_count, raised |-> FALSE]
    ELSE IF get_tab_id(cs) \in TabIds
    THEN [tabs |-> tabs, active |-> active, count |-> chat_binding_count, raised |-> TRUE]
    ELSE [tabs |-> Append(tabs, cs), active |-> get_tab_id(cs),
          count |-> chat_binding_count + 1, raised |-> FALSE]

\* The AddChatScreen was dismissed with input_text: the callback runs.
AddChat(input_text) ==
    /\ Suspended
    /\ LET added == on_add_chat(input_text) IN
        /\ tabs' = added.tabs
        /\ active' = added.active
        /\ chat_binding_count' = added.count
        /\ app_state' = IF added.raised THEN "error" ELSE app_state
    /\ UNCHANGED <<listenSide, mount_log, processed_queue, tx_queue, composed, children, packet_count, pc, cur,
                   note, thread_stop, txVars, submitted, msg_counter, next_uid, queued,
                   appended>>

\* The operator activates another tab (show_tab binding, or a click).
ShowTab(callsign) ==
    /\ Suspended
    /\ callsign \in Range(tabs)
    /\ active # get_tab_id(callsign)
    /\ active' = get_tab_id(callsign)
    /\ UNCHANGED <<listenSide, mount_log, processed_queue, tx_queue, tabs, composed, children, chat_binding_count,
                   packet_count, pc, cur, app_state, note, thread_stop, txVars, submitted,
                   msg_counter, next_uid, queued, appended>>

\* The TabPane mounted by add_pane composes its pending child, the
\* VerticalScroll, on its own message loop.
ComposePane(callsign) ==
    /\ Suspended
    /\ callsign \in Range(tabs) \ composed
    /\ composed' = composed \cup {callsign}
    /\ UNCHANGED <<listenSide, mount_log, processed_queue, tx_queue, tabs, children, active, chat_binding_count,
                   packet_count, pc, cur, app_state, note, thread_stop, txVars, submitted,
                   msg_counter, next_uid, queued, appended>>

action_send_message_twice ==
    /\ Suspended
    /\ LET msg == MessagePacket(next_uid, CONF_callsign, get_active_callsign,
                                msg_counter + 1) IN
        /\ processed_queue' = Append(processed_queue, msg)
        /\ tx_queue' = Append(Append(tx_queue, msg), msg)
        /\ submitted' = Append(submitted, msg)
        /\ queued' = queued \cup {msg.uid}
    /\ msg_counter' = msg_counter + 1
    /\ next_uid' = next_uid + 1
    /\ UNCHANGED <<listenSide, mount_log, uiVars, thread_stop, txVars, appended>>

\* APRSChatApp.action_send_message
action_send_message ==
    /\ Suspended
    /\ LET msg == MessagePacket(next_uid, CONF_callsign, get_active_callsign,
                                msg_counter + 1) IN
        /\ processed_queue' = Append(processed_queue, msg)
        /\ tx_queue' = Append(tx_queue, msg)
        /\ submitted' = Append(submitted, msg)
        /\ queued' = queued \cup {msg.uid}
    /\ msg_counter' = msg_counter + 1
    /\ next_uid' = next_uid + 1
    /\ UNCHANGED <<listenSide, mount_log, uiVars, thread_stop, txVars, appended>>

\* threads.APRSDThreadList().stop_all() (signal_handler, on_unmount)
StopAll ==
    /\ ~thread_stop
    /\ thread_stop' = TRUE
    /\ UNCHANGED <<listenSide, mount_log, processed_queue, tx_queue, uiVars, txVars, submitted, msg_counter,
                   next_uid, queued, appended>>

\* ------------------------------------------- chat: the display loop
OwnerCallsign_other(packet) ==
    IF (IF packet.from_call = CONF_callsign THEN packet.to_call ELSE packet.from_call) = "A"
    THEN "B" ELSE "A"

\* check_packets, lines 577-580: the callsign whose scroll view is used
OwnerCallsign(packet) ==
    IF packet.from_call = CONF_callsign THEN packet.to_call ELSE packet.from_call

\* lines 595-596: Widget.remove(scroll_view.children[0])
remove_newest(entries) ==
    IF Len(entries) > HistoryCap THEN SubSeq(entries, 1, Len(entries) - 1) ELSE entries

remove_oldest(entries) ==
    IF Len(entries) > HistoryCap THEN Tail(entries) ELSE entries

put_back_dropped(queue, packet) == queue

\* line 615: self.processed_queue.put(packet)
put_back(queue, packet) == Append(queue, packet)

\* App.query_one("#" + id) walks the whole DOM: the matches as <<tab index,
\* child index>>, which is their DOM order.
Matches(id) ==
    {<<t, i>> \in (1..Len(tabs)) \X (1..HistoryCap + 1) :
        /\ tabs[t] \in composed
        /\ i <= Len(children[tabs[t]])
        /\ children[tabs[t]][i].id = id}

Before(m, n) == m[1] < n[1] \/ (m[1] = n[1] /\ m[2] <= n[2])

\* line 606: the widget query_one returns ({} stands for NoMatches raised)
query_one_packet(packet) ==
    LET found == Matches(get_packet_id(packet)) IN
    {m \in found : \A n \in found : Before(m, n)}

mark_acked_oldest(packet) ==
    LET owner == IF packet.from_call = CONF_callsign THEN packet.to_call ELSE packet.from_call IN
    IF children[owner] = <<>> THEN children
    ELSE [children EXCEPT ![owner][1].acked = TRUE]

\* lines 606-610: pkt_widget.acked = True, or the exception caught
mark_acked(packet) ==
    LET hit == query_one_packet(packet) IN
    IF hit = {} THEN children
    ELSE LET m == CHOOSE m \in hit : TRUE IN
         [children EXCEPT ![tabs[m[1]]][m[2]].acked = TRUE]

count_packet_twice(count) == count + 2

\* line 575: self.packet_count += 1
count_packet(count) == count + 1

\* One pass of the loop body up to its first await: lines 574-616.
CheckPacketsGet ==
    /\ app_state = "running"
    /\ pc = "loop"
    /\ processed_queue # <<>>
    /\ LET packet == Head(processed_queue)
           callsign == OwnerCallsign(packet)
           need_tab == packet.from_call # CONF_callsign /\ ~get_tab_for_callsign(callsign)
           added == IF need_tab THEN on_add_chat(callsign)
                    ELSE [tabs |-> tabs, active |-> active, count |-> chat_binding_count,
                          raised |-> FALSE]
           found == ~added.raised /\ get_scroll_for_callsign(callsign)
           duplicate == found /\ packet.kind = "msg"
                          /\ get_packet_id(packet) \in ChildIds(callsign)
       IN
        /\ packet_count' = count_packet(packet_count)
        /\ tabs' = added.tabs
        /\ active' = added.active
        /\ chat_binding_count' = added.count
        /\ app_state' = IF added.raised \/ duplicate THEN "error" ELSE app_state
        /\ processed_queue' =
              IF added.raised \/ found THEN Tail(processed_queue)
              ELSE put_back(Tail(processed_queue), packet)
        /\ children' =
              IF found /\ packet.kind = "msg" /\ ~duplicate
              THEN [children EXCEPT ![callsign] = Append(@, MyPacketDisplay(packet))]
              ELSE IF found /\ packet.kind = "ack" THEN mark_acked(packet)
              ELSE children
        /\ appended' =
              IF found /\ packet.kind = "msg" /\ ~duplicate
              THEN appended \cup {packet.uid} ELSE appended
        /\ note' = IF found /\ packet.kind = "ack" THEN <<"ack", packet.msgNo>> ELSE NoNote
        /\ pc' = IF added.raised \/ duplicate THEN pc
                 ELSE IF ~found THEN "sleep"
                 ELSE IF packet.kind = "msg" THEN "mounted"
                 ELSE "loop"
        /\ cur' = IF added.raised \/ duplicate \/ (found /\ packet.kind = "msg")
                  THEN packet ELSE NoPacket
        /\ mount_log' =
              IF found /\ packet.kind = "msg" /\ ~duplicate
              THEN Append(mount_log, [callsign |-> callsign, uid |-> packet.uid])
              ELSE mount_log
    /\ UNCHANGED <<listenSide, tx_queue, composed, thread_stop, txVars, submitted, msg_counter,
                   next_uid, queued>>

\* lines 618-620: queue.Empty, await asyncio.sleep(0.1)
CheckPacketsEmpty ==
    /\ app_state = "running"
    /\ pc = "loop"
    /\ processed_queue = <<>>
    /\ pc' = "sleep"
    /\ note' = NoNote
    /\ UNCHANGED <<listenSide, mount_log, processed_queue, tx_queue, tabs, composed, children, active,
                   chat_binding_count, packet_count, cur, app_state, thread_stop, txVars,
                   submitted, msg_counter, next_uid, queued, appended>>

\* A sleep of line 616 or 620 is over.
CheckPacketsWake ==
    /\ app_state = "running"
    /\ pc = "sleep"
    /\ pc' = "loop"
    /\ UNCHANGED <<listenSide, mount_log, processed_queue, tx_queue, tabs, composed, children, active,
                   chat_binding_count, packet_count, cur, app_state, note, thread_stop,
                   txVars, submitted, msg_counter, next_uid, queued, appended>>

new_message_note_always(callsign) == <<"new", callsign>>

\* lines 598-599: self.notify(f"New message from {callsign}")
new_message_note(callsign) ==
    IF get_active_callsign # callsign THEN <<"new", callsign>> ELSE NoNote

\* After await scroll_view.mount(...): lines 594-600.
CheckPacketsMounted ==
    /\ app_state = "running"
    /\ pc = "mounted"
    /\ LET callsign == OwnerCallsign(cur) IN
        /\ children' = [children EXCEPT ![callsign] = remove_oldest(@)]
        /\ note' = new_message_note(callsign)
    /\ pc' = "loop"
    /\ cur' = NoPacket
    /\ UNCHANGED <<listenSide, mount_log, processed_queue, tx_queue, tabs, composed, active, chat_binding_count,
                   packet_count, app_state, thread_stop, txVars, submitted, msg_counter,
                   next_uid, queued, appended>>

\* ------------------------------------------------- chat: APRSTXThread
tx_get_newest(queue) ==
    [packet |-> queue[Len(queue)], rest |-> SubSeq(queue, 1, Len(queue) - 1)]

\* line 136: packet = self.tx_queue.get()
tx_get(queue) == [packet |-> Head(queue), rest |-> Tail(queue)]

\* lines 134-136: the loop test, the empty test and the get
TXGet ==
    /\ tx_pc = "idle"
    /\ ~thread_stop
    /\ tx_queue # <<>>
    /\ tx_cur' = tx_get(tx_queue).packet
    /\ tx_queue' = tx_get(tx_queue).rest
    /\ tx_pc' = "send"
    /\ UNCHANGED <<listenSide, mount_log, processed_queue, uiVars, thread_stop, handed, submitted, msg_counter,
                   next_uid, queued, appended>>

\* line 137: tx.send(packet) returns, or raises out of loop()
TXSend(ok) ==
    /\ tx_pc = "send"
    /\ handed' = Append(handed, tx_cur)
    /\ tx_cur' = NoPacket
    /\ tx_pc' = IF ok THEN "idle" ELSE "dead"
    /\ UNCHANGED <<listenSide, mount_log, processed_queue, tx_queue, uiVars, thread_stop, submitted, msg_counter,
                   next_uid, queued, appended>>

\* line 134: while not self.thread_stop
TXExit ==
    /\ tx_pc = "idle"
    /\ thread_stop
    /\ tx_pc' = "exited"
    /\ UNCHANGED <<listenSide, mount_log, processed_queue, tx_queue, uiVars, thread_stop, tx_cur, handed,
                   submitted, msg_counter, next_uid, queued, appended>>

\* The chat display path.  The operator submits the input line
\* (ChatInput.on_input_submitted); the base class of the classifier hands
\* over a packet from a correspondent.
Submit ==
    /\ next_uid <= MaxPackets
    /\ action_send_message

Receive ==
    /\ next_uid <= MaxPackets
    /\ \E packet \in RxPackets(next_uid) : ChatClassify(packet)

\* One more pass of check_packets, within the bound of the run.
Get ==
    /\ packet_count < MaxCount
    /\ CheckPacketsGet

Next ==
    \/ Receive
    \/ Submit
    \/ \E callsign \in Correspondents : ComposePane(callsign)
    \/ \E callsign \in Correspondents : ShowTab(callsign)
    \/ Get
    \/ CheckPacketsMounted
    \/ CheckPacketsEmpty
    \/ CheckPacketsWake

Spec == Init /\ [][Next]_vars

\* The same with the AddChatScreen and with callsigns in any case.
OpsSubmit ==
    /\ Len(submitted) < MaxSends
    /\ action_send_message

OpsReceive ==
    /\ next_uid - 1 - Len(submitted) < MaxInbound
    /\ \E packet \in InboundPackets(next_uid) : ChatClassify(packet)

NextOps ==
    \/ OpsReceive
    \/ OpsSubmit
    \/ \E input_text \in AddInputs : AddChat(input_text)
    \/ \E callsign \in Correspondents : ComposePane(callsign)
    \/ \E callsign \in Correspondents : ShowTab(callsign)
    \/ Get
    \/ CheckPacketsMounted
    \/ CheckPacketsEmpty
    \/ CheckPacketsWake

SpecOps == Init /\ [][NextOps]_vars

\* The chat outbound path: operator, APRSTXThread, stop_all.
TxSubmit ==
    /\ Len(submitted) < MaxTxSends
    /\ action_send_message

NextTx ==
    \/ TxSubmit
    \/ Get
    \/ CheckPacketsEmpty
    \/ CheckPacketsWake
    \/ StopAll
    \/ TXGet
    \/ \E ok \in BOOLEAN : TXSend(ok)
    \/ TXExit

SpecTx == Init /\ [][NextTx]_vars

\* The TX thread is a thread of its own: it runs whenever it can.
FairSpecTx ==
    /\ SpecTx
    /\ WF_vars(TXGet)
    /\ WF_vars(\E ok \in BOOLEAN : TXSend(ok))
    /\ WF_vars(TXExit)

\* The chat submit path end to end: a correspondent's message opens the
\* session, the operator submits, the display loop and the TX thread both
\* run.
FanReceive ==
    /\ next_uid - 1 - Len(submitted) < MaxFanInbound
    /\ \E no \in MsgNos : ChatClassify(MessagePacket(next_uid, "A", CONF_callsign, no))

FanSubmit ==
    /\ Len(submitted) < MaxFanSends
    /\ action_send_message

FanGet == packet_count < MaxFanCount /\ CheckPacketsGet

NextFan ==
    \/ FanReceive
    \/ FanSubmit
    \/ ComposePane("A")
    \/ FanGet
    \/ CheckPacketsMounted
    \/ CheckPacketsEmpty
    \/ CheckPacketsWake
    \/ TXGet
    \/ \E ok \in BOOLEAN : TXSend(ok)

SpecFan == Init /\ [][NextFan]_vars

\* ---------------------------------------------- listen: the classifier
process_packet_front(queue, packet) == <<packet>> \o queue

\* APRSDListenProcessThread.process_packet
process_packet(queue, packet) == Append(queue, packet)

\* A received packet; accepted is what the packet filter of the base
\* class answers for it under the filter of the run.
RxPacket(uid, accepted) == [uid |-> uid, accepted |-> accepted]
Accepted(packet) == packet.accepted

\* The receive thread puts a packet on the inbound queue.
RxPut(accepted) ==
    /\ command = "listen"
    /\ packet_queue' = Append(packet_queue, RxPacket(rx_uid, accepted))
    /\ rx_uid' = rx_uid + 1
    /\ UNCHANGED <<chatLogSide, ticks, listen_queue, packet_view, listen_count, listen_pc, filter,
                   client_filter, consumed, taken>>

\* listen.py APRSDListenProcessThread.print_packet: the packet is handed to
\* packet_log.log when the thread's log_packets attribute is set.
print_packet(log, packet) == IF log_packets THEN Append(log, packet) ELSE log

\* One loop of the classifier thread: take a packet, filter it, and call
\* process_packet with an accepted one.
ListenProcess ==
    /\ command = "listen"
    /\ packet_queue # <<>>
    /\ LET packet == Head(packet_queue) IN
        /\ consumed' = Append(consumed, packet)
        /\ logged' = IF Accepted(packet) THEN print_packet(logged, packet) ELSE logged
        /\ listen_queue' = IF Accepted(packet) THEN process_packet(listen_queue, packet)
                           ELSE listen_queue
    /\ packet_queue' = Tail(packet_queue)
    /\ UNCHANGED <<chatSide, log_option, log_packets, ticks, packet_view, listen_count,
                   listen_pc, filter, client_filter, rx_uid, taken>>

\* -------------------------------------------- listen: the display loop
\* The entry labelled with the counter value before its increment.
ListenPacketDisplay_stale(packet, count) == [packet |-> packet, packet_count |-> count - 1]

\* listen.py MyPacketDisplay(packet, packet_count)
ListenPacketDisplay(packet, count) == [packet |-> packet, packet_count |-> count]

\* lines 498-499: Widget.remove(packet_view.children[0])
listen_remove_oldest(entries) ==
    IF Len(entries) > HistoryCap THEN Tail(entries) ELSE entries

\* lines 490-495, up to await packet_view.mount(...)
ListenCheckPacketsGet ==
    /\ command = "listen"
    /\ listen_pc = "loop"
    /\ listen_queue # <<>>
    /\ LET packet == Head(listen_queue) IN
        /\ taken' = Append(taken, packet)
        /\ packet_view' = Append(packet_view, ListenPacketDisplay(packet, listen_count + 1))
    /\ listen_count' = listen_count + 1
    /\ listen_queue' = Tail(listen_queue)
    /\ listen_pc' = "mounted"
    /\ UNCHANGED <<chatLogSide, ticks, packet_queue, filter, client_filter, rx_uid, consumed>>

\* lines 497-499
ListenCheckPacketsMounted ==
    /\ command = "listen"
    /\ listen_pc = "mounted"
    /\ packet_view' = listen_remove_oldest(packet_view)
    /\ listen_pc' = "loop"
    /\ UNCHANGED <<chatLogSide, ticks, packet_queue, listen_queue, listen_count, filter,
                   client_filter, rx_uid, consumed, taken>>

\* lines 500-502: queue.Empty, await asyncio.sleep(0.1)
ListenCheckPacketsEmpty ==
    /\ command = "listen"
    /\ listen_pc = "loop"
    /\ listen_queue = <<>>
    /\ listen_pc' = "sleep"
    /\ UNCHANGED <<chatLogSide, ticks, packet_queue, listen_queue, packet_view, listen_count,
                   filter, client_filter, rx_uid, consumed, taken>>

ListenCheckPacketsWake ==
    /\ command = "listen"
    /\ listen_pc = "sleep"
    /\ listen_pc' = "loop"
    /\ UNCHANGED <<chatLogSide, ticks, packet_queue, listen_queue, packet_view, listen_count,
                   filter, client_filter, rx_uid, consumed, taken>>

\* ------------------------------------------------- listen: the filter
filter_changed_flush(text) ==
    /\ command = "listen"
    /\ filter' = text
    /\ ticks' = 0
    /\ listen_queue' = <<>>
    /\ UNCHANGED <<chatLogSide, packet_queue, packet_view, listen_count,
                   listen_pc, client_filter, rx_uid, consumed, taken>>

\* APRSListenerApp.filter_changed, called by the APRSFilterInput screen
\* with the text of its input.
filter_changed(text) ==
    /\ command = "listen"
    /\ filter' = text
    /\ ticks' = 0
    /\ UNCHANGED <<chatLogSide, packet_queue, listen_queue, packet_view, listen_count,
                   listen_pc, client_filter, rx_uid, consumed, taken>>

\* line 529: ",".join(self.aprs_client.get_filter())
current_filter == join(<<",">>, Items(client_filter))

\* What aprs_client.stats() does on a tick: it returns statistics that
\* _build_connection_string can use, returns statistics it cannot use (no
\* "transport" key, an unknown transport), or raises.
StatsOutcomes == {"ok", "unusable", "raises"}

\* The try block of check_connection (chat.py 643-657, listen.py 535-551):
\* _build_connection_string runs before the is_alive test, and what it
\* raises is caught with the widget left as it was.
connection_view(stats) ==
    IF stats = "unusable" THEN conn
    ELSE IF ~rx_alive THEN [text |-> "Connection Lost", sub_text |-> ""]
    ELSE [text |-> "endpoint", sub_text |-> CONF_callsign]

\* One tick of the listen check_connection, lines 524-553: the stats
\* call, the filter reconciliation (set_filter stores the str it is
\* given), the widgets.  An exception of stats() leaves the worker.
ListenCheckConnection(stats) ==
    /\ command = "listen"
    /\ mon_pc = "running"
    /\ ticks < MaxTicks
    /\ IF stats = "raises"
       THEN /\ mon_pc' = "dead"
            /\ UNCHANGED <<ticks, client_filter, conn, filter_view, tick_seen, filter_set>>
       ELSE /\ ticks' = ticks + 1
            /\ client_filter' = IF current_filter # filter THEN PyStr(filter)
                                ELSE client_filter
            /\ filter_set' = (current_filter # filter)
            /\ conn' = connection_view(stats)
            /\ filter_view' = IF stats = "unusable" THEN filter_view ELSE filter
            /\ tick_seen' = IF rx_alive THEN "alive" ELSE "dead"
            /\ mon_pc' = mon_pc
    /\ UNCHANGED <<command, regVars, logVars, chatVars, packet_queue, listen_queue, packet_view,
                   listen_count, listen_pc, filter, rx_uid, consumed, taken, rx_alive>>

CheckConnection == \E stats \in StatsOutcomes : ListenCheckConnection(stats)

\* One tick of the chat check_connection, lines 640-657.
ChatCheckConnection(stats) ==
    /\ command = "chat"
    /\ mon_pc = "running"
    /\ IF stats = "raises"
       THEN /\ mon_pc' = "dead"
            /\ UNCHANGED <<conn, tick_seen>>
       ELSE /\ conn' = connection_view(stats)
            /\ tick_seen' = IF rx_alive THEN "alive" ELSE "dead"
            /\ mon_pc' = mon_pc
    /\ UNCHANGED <<command, regVars, logVars, chatVars, listenVars, filter_view, rx_alive, filter_set>>

\* The receive thread (APRSDRXThread) ends.
RxDies ==
    /\ rx_alive
    /\ rx_alive' = FALSE
    /\ UNCHANGED <<command, regVars, logVars, chatVars, listenVars, mon_pc, conn, filter_view, tick_seen,
                   filter_set>>

\* The listen display path.
InitListenRun ==
    /\ command = "listen"
    /\ InitMonitor
    /\ InitChat
    /\ \E filter_arg \in FilterArgs : InitListen(filter_arg)

Rx == rx_uid <= MaxRx /\ \E accepted \in BOOLEAN : RxPut(accepted)

NextListen ==
    \/ Rx
    \/ ListenProcess
    \/ ListenCheckPacketsGet
    \/ ListenCheckPacketsMounted
    \/ ListenCheckPacketsEmpty
    \/ ListenCheckPacketsWake

SpecListen == InitListenRun /\ [][NextListen]_vars

\* The listen command run with and without --log-packets.
InitLog(option) ==
    /\ command = "listen"
    /\ InitMonitor
    /\ InitChat
    /\ \E filter_arg \in FilterArgs : InitListenLog(filter_arg, option)

SpecLog == (\E option \in BOOLEAN : InitLog(option)) /\ [][NextListen]_vars

\* The listen filter path: the operator's filter screen and the ticks of
\* check_connection.
NextFilter ==
    \/ \E text \in Str(MaxFilterLen) : filter_changed(text)
    \/ CheckConnection

SpecFilter == InitListenRun /\ [][NextFilter]_vars

\* The listen display path with the filter screen: the operator changes
\* the filter while packets arrive and are displayed.
NextLive ==
    \/ NextListen
    \/ \E text \in Str(MaxLiveFilterLen) : filter_changed(text)

SpecLive == InitListenRun /\ [][NextLive]_vars

\* The classifier is a thread of its own and the display loop a worker of
\* the event loop: each runs whenever it can.
FairSpecLive ==
    /\ SpecLive
    /\ WF_vars(ListenProcess)
    /\ WF_vars(ListenCheckPacketsGet)
    /\ WF_vars(ListenCheckPacketsMounted)
    /\ WF_vars(ListenCheckPacketsEmpty)
    /\ WF_vars(ListenCheckPacketsWake)

\* ------------------------------------------------ the thread registry
\* The objects handed to ServerThreads: two APRSDThread instances and an
\* object that is none.
RegThreads == {"t1", "t2"}
RegObjects == RegThreads \cup {"x"}

\* isinstance(thread, aprsd_threads.APRSDThread)
isinstance_APRSDThread(obj) == obj \in RegThreads

register_unchecked(list, obj) == [threads |-> Append(list, obj), raised |-> "none"]

\* ServerThreads.register
register(list, obj) ==
    IF ~isinstance_APRSDThread(obj) THEN [threads |-> list, raised |-> "TypeError"]
    ELSE [threads |-> Append(list, obj), raised |-> "none"]

\* list.remove: the first occurrence goes, ValueError when there is none
RECURSIVE list_remove(_, _)
list_remove(list, obj) ==
    IF list = <<>> THEN <<>>
    ELSE IF Head(list) = obj THEN Tail(list)
    ELSE <<Head(list)>> \o list_remove(Tail(list), obj)

\* ServerThreads.unregister
unregister(list, obj) ==
    IF ~isinstance_APRSDThread(obj) THEN [threads |-> list, raised |-> "TypeError"]
    ELSE IF obj \notin Range(list) THEN [threads |-> list, raised |-> "ValueError"]
    ELSE [threads |-> list_remove(list, obj), raised |-> "none"]

\* ServerThreads.start: thread.start() for each of the list in order; the
\* start() of a thread that was started raises RuntimeError out of the loop.
RECURSIVE start(_, _)
start(list, running) ==
    IF list = <<>> THEN [started |-> running, raised |-> "none"]
    ELSE IF Head(list) \in running THEN [started |-> running, raised |-> "RuntimeError"]
    ELSE start(Tail(list), running \cup {Head(list)})

Register(obj) ==
    /\ Len(threads) < MaxThreads
    /\ threads' = register(threads, obj).threads
    /\ reg_raised' = register(threads, obj).raised
    /\ UNCHANGED <<appVars, started>>

Unregister(obj) ==
    /\ threads' = unregister(threads, obj).threads
    /\ reg_raised' = unregister(threads, obj).raised
    /\ UNCHANGED <<appVars, started>>

StartThreads ==
    /\ started' = start(threads, started).started
    /\ reg_raised' = start(threads, started).raised
    /\ UNCHANGED <<appVars, threads>>

NextReg ==
    \/ \E obj \in RegObjects : Register(obj)
    \/ \E obj \in RegObjects : Unregister(obj)
    \/ StartThreads

SpecReg == Init /\ [][NextReg]_vars

\* The connection monitor of either command, with the receive thread
\* ending and, in listen mode, the filter screen.
InitMon ==
    /\ command \in {"chat", "listen"}
    /\ InitMonitor
    /\ InitChat
    /\ InitListen(<< <<"m">> >>)

NextMon ==
    \/ \E stats \in StatsOutcomes : ChatCheckConnection(stats)
    \/ CheckConnection
    \/ RxDies
    \/ \E text \in Str(MaxFilterLen) : filter_changed(text)

SpecMon == InitMon /\ [][NextMon]_vars

\* A run that fills one history past the cap, in either command: in chat
\* mode the messages of one correspondent, each with its own msgNo; in
\* listen mode accepted packets.
InitCap ==
    /\ command \in {"chat", "listen"}
    /\ InitMonitor
    /\ InitChat
    /\ InitListen(<< <<"m">> >>)

CapReceive ==
    /\ command = "chat"
    /\ next_uid <= MaxCapPackets
    /\ Len(processed_queue) < MaxCapQueue
    /\ ChatClassify(MessagePacket(next_uid, "A", CONF_callsign, next_uid))

CapGet == command = "chat" /\ packet_count < MaxCapCount /\ CheckPacketsGet
CapCompose == command = "chat" /\ ComposePane("A")
CapMounted == command = "chat" /\ CheckPacketsMounted
CapEmpty == command = "chat" /\ CheckPacketsEmpty
CapWake == command = "chat" /\ CheckPacketsWake
CapRx == rx_uid <= MaxCapPackets /\ RxPut(TRUE)

NextCap ==
    \/ CapReceive
    \/ CapCompose
    \/ CapGet
    \/ CapMounted
    \/ CapEmpty
    \/ CapWake
    \/ CapRx
    \/ ListenProcess
    \/ ListenCheckPacketsGet
    \/ ListenCheckPacketsMounted
    \/ ListenCheckPacketsEmpty
    \/ ListenCheckPacketsWake

SpecCap == InitCap /\ [][NextCap]_vars

\* The listen pipeline over a run long enough to evict: the receive thread
\* delivers packets of which the filter rejects a few, the classifier
\* forwards the accepted ones and the display loop shows them.
Rejected(packets) == Len(SelectSeq(packets, LAMBDA packet : ~Accepted(packet)))

PipeRx ==
    /\ rx_uid <= MaxPipePackets
    /\ Len(packet_queue) < MaxPipeQueue
    /\ \E accepted \in BOOLEAN :
          /\ ~accepted => Rejected(consumed \o packet_queue) < MaxPipeRejects
          /\ RxPut(accepted)

NextPipe ==
    \/ PipeRx
    \/ ListenProcess
    \/ ListenCheckPacketsGet
    \/ ListenCheckPacketsMounted
    \/ ListenCheckPacketsEmpty
    \/ ListenCheckPacketsWake

SpecPipe == InitListenRun /\ [][NextPipe]_vars

\* Fairness of the chat display path: the display loop is a worker of the
\* event loop and runs whenever it can; a mounted TabPane composes its
\* children while the loop is suspended in an await.
FairSpec ==
    /\ Spec
    /\ WF_vars(Get)
    /\ WF_vars(CheckPacketsMounted)
    /\ WF_vars(CheckPacketsEmpty)
    /\ WF_vars(CheckPacketsWake)
    /\ \A callsign \in Correspondents : SF_vars(ComposePane(callsign))

\* ===================================================================
\* Claims
\* ===================================================================

\* A pass of check_packets takes the head of the display queue.
Dequeues == pc = "loop" /\ packet_count' = packet_count + 1
Head_packet == Head(processed_queue)
InDisplayQueue(uid) == \E i \in 1..Len(processed_queue) : processed_queue[i].uid = uid

\* Line 584 is reached and add_pane raises: line 586 is not reached.
AddRaises(packet) ==
    /\ packet.from_call # CONF_callsign
    /\ ~get_tab_for_callsign(OwnerCallsign(packet))
    /\ on_add_chat(OwnerCallsign(packet)).raised

\* C2: an acknowledgement whose number matches an entry of its owning
\* session S flips the acknowledged flag of one entry of S with that key
\* and leaves the entries of every other session as they were, also when
\* another session holds an entry with the same message number.
C2_AckFlipsInOwningSession ==
    [][(/\ Dequeues
        /\ Head_packet.kind = "ack"
        /\ get_scroll_for_callsign(OwnerCallsign(Head_packet))
        /\ get_packet_id(Head_packet) \in ChildIds(OwnerCallsign(Head_packet)))
       => LET S == OwnerCallsign(Head_packet) IN
          /\ \A c \in Correspondents \ {S} : children'[c] = children[c]
          /\ \E i \in 1..Len(children[S]) :
                /\ children[S][i].id = get_packet_id(Head_packet)
                /\ children'[S] = [children[S] EXCEPT ![i].acked = TRUE]]_vars

\* C3: a dequeued packet whose scroll view is not found is put back at
\* the tail of the display queue in the same step and the loop goes on;
\* every message packet ever put on the display queue is in the queue, held
\* by the display loop, or has been mounted in a scroll view.
C3_PutBack ==
    (/\ Dequeues
     /\ ~AddRaises(Head_packet)
     /\ ~get_scroll_for_callsign(OwnerCallsign(Head_packet)))
    => /\ processed_queue' = Append(Tail(processed_queue), Head_packet)
       /\ app_state' = "running"
       /\ pc' = "sleep"

C3_Accounted ==
    \A uid \in queued : InDisplayQueue(uid) \/ cur.uid = uid \/ uid \in appended

C4_EventualDisplay ==
    \A uid \in 1..MaxPackets :
        [](uid \in queued => <>(uid \in appended \/ packet_count = MaxCount))

\* C7: no two tabs carry the same correspondent id, and adding a chat for
\* a correspondent that has a tab leaves the tabs as they are and the
\* application running (the existing session is the result).
C7_OneTabPerId == \A i, j \in 1..Len(tabs) : tabs[i] = tabs[j] => i = j

C7_SessionGetOrCreate ==
    /\ []C7_OneTabPerId
    /\ [][\A input_text \in AddInputs :
            (AddChat(input_text) /\ get_tab_for_callsign(StripUpper(input_text)))
            => (tabs' = tabs /\ app_state' = "running")]_vars

\* C8: the pass that takes an inbound message whose sender has no session
\* leaves a new session keyed on the sender whose history is the one entry
\* of that packet, not acknowledged, and other sessions unchanged.
InboundFromNew(packet) ==
    /\ packet.kind = "msg"
    /\ packet.from_call # CONF_callsign
    /\ ~get_tab_for_callsign(StripUpper(packet.from_call))

UnmatchedAck(packet) ==
    packet.kind = "ack" /\ Matches(get_packet_id(packet)) = {}

C10_OutboundFifo ==
    /\ handed \o (IF tx_pc = "send" THEN <<tx_cur>> ELSE <<>>) \o tx_queue = submitted
    /\ \A i, j \in 1..Len(handed) : handed[i].uid = handed[j].uid => i = j

\* Two packets were passed to tx.send and a third waits in the queue.
C10_Witness == Len(handed) = 2 /\ Len(tx_queue) = 1

\* The text of the filter the client holds: a str as it is, a tuple of
\* tokens joined.
ActiveFilterText ==
    IF client_filter.type = "str" THEN client_filter.val
    ELSE join(<<",">>, client_filter.val)

\* C5: the packets the classifier put on the display queue are, in order,
\* the packets it took off the inbound queue that the filter accepted: what
\* the display loop took, then the display queue, is that subsequence.
C5_ClassifierPassThrough == taken \o listen_queue = SelectSeq(consumed, Accepted)

\* Three packets were classified, one rejected, and two wait in order.
C5_Witness ==
    /\ Len(consumed) = 3
    /\ Len(listen_queue) = 2
    /\ \E i \in 1..3 : ~Accepted(consumed[i])

\* C6: once a tick of check_connection has completed since the last
\* filter_changed, the filter the client holds is the desired filter.
C6_FilterConverges == ticks >= 1 => ActiveFilterText = filter

\* The last n elements of a sequence.
LastN(seq, n) == SubSeq(seq, IF Len(seq) > n THEN Len(seq) - n + 1 ELSE 1, Len(seq))

\* The uids of the entries of a session's history, oldest first.
HistoryUids(callsign) == [i \in 1..Len(children[callsign]) |-> children[callsign][i].packet.uid]

\* The uids of the entries ever mounted in a session, in mount order.
MountedUids(callsign) ==
    LET of_session(m) == m.callsign = callsign
        log == SelectSeq(mount_log, of_session)
    IN [i \in 1..Len(log) |-> log[i].uid]

\* C1: whenever the display loop is not between a mount and its eviction,
\* every session's history (chat) and the packet view (listen) holds at
\* most HistoryCap entries, and they are the last ones mounted, in mount
\* order: eviction removes from the oldest end.
C1_HistoryCap ==
    /\ pc # "mounted" =>
          \A callsign \in Correspondents :
              /\ Len(children[callsign]) <= HistoryCap
              /\ HistoryUids(callsign) = LastN(MountedUids(callsign), HistoryCap)
    /\ listen_pc # "mounted" =>
          /\ Len(packet_view) <= HistoryCap
          /\ [i \in 1..Len(packet_view) |-> packet_view[i].packet] = LastN(taken, HistoryCap)

\* Twelve messages of one correspondent were mounted one after the other,
\* and the history holds the last ten in arrival order.
C1_Witness ==
    /\ pc = "loop"
    /\ MountedUids("A") = [i \in 1..12 |-> i]
    /\ HistoryUids("A") = [i \in 1..10 |-> i + 2]

\* C11: a failed tx.send is not retried and does not stop the dispatcher:
\* every packet put on the outbound queue is eventually handed to tx.send,
\* unless the stop flag is set.
C11_FailureIsolation ==
    /\ \A i \in 1..MaxTxSends :
          [](Len(submitted) >= i => <>(thread_stop \/ Len(handed) >= i))
    /\ [](\A i, j \in 1..Len(handed) : handed[i].uid = handed[j].uid => i = j)

\* C12: an exception of the statistics call never ends the monitor: the
\* check_connection worker is running in every reachable state.
C12_MonitorSurvives == mon_pc = "running"

\* C14: after a completed tick that found the receive thread dead the
\* connection view shows Connection Lost with an empty sub-text, also when
\* the statistics of that tick were unusable.
C14_LivenessSurfaced ==
    tick_seen = "dead" => conn = [text |-> "Connection Lost", sub_text |-> ""]

\* C13: once the stop flag is set no loop takes a further item: the
\* display loop dequeues no packet and the TX thread gets none; a packet the
\* TX thread already holds is still handed to tx.send.
C13_CooperativeStop ==
    /\ [][thread_stop => ~Dequeues]_vars
    /\ [][thread_stop => ~(tx_pc = "idle" /\ tx_pc' = "send")]_vars
    /\ [][(thread_stop /\ tx_pc = "send")
          => (tx_pc' = "send" \/ handed' = Append(handed, tx_cur))]_vars

\* C15: the pass of the display loop that takes the echo of an outbound
\* message whose correspondent has no session leaves a session for that
\* correspondent, and does not end the loop.
C15_SessionOnOutbound ==
    [][(/\ Dequeues
        /\ Head_packet.from_call = CONF_callsign
        /\ ~get_tab_for_callsign(Head_packet.to_call))
       => (Head_packet.to_call \in Range(tabs') /\ app_state' = "running")]_vars

\* C16: when the display loop takes a packet of a correspondent whose
\* session exists under the normalised id, the lookups with the id as the
\* packet carries it find that session: the tab, and the scroll view once it
\* is composed.
C16_StableLookup ==
    [][(/\ Dequeues
        /\ Head_packet.from_call # CONF_callsign
        /\ StripUpper(Head_packet.from_call) \in Range(tabs))
       => /\ get_tab_for_callsign(Head_packet.from_call)
          /\ StripUpper(Head_packet.from_call) \in composed
                => get_scroll_for_callsign(Head_packet.from_call)]_vars

\* C17: register and unregister of an object that is no APRSDThread raise
\* TypeError at the call and leave the list as it was; register of a thread
\* appends it; a start() starts every thread of the list.
C17_Rejects ==
    /\ [][\A obj \in RegObjects \ RegThreads :
            (Register(obj) \/ Unregister(obj))
            => (reg_raised' = "TypeError" /\ threads' = threads)]_vars
    /\ [][\A obj \in RegThreads :
            Register(obj) => (reg_raised' = "none" /\ threads' = Append(threads, obj))]_vars

NoDuplicates(list) == \A i, j \in 1..Len(list) : list[i] = list[j] => i = j

C18_CounterMonotonic ==
    /\ [][packet_count' >= packet_count /\ listen_count' >= listen_count]_vars
    /\ [][CheckPacketsGet => packet_count' = packet_count + 1]_vars
    /\ [][packet_count' # packet_count => CheckPacketsGet]_vars
    /\ [][ListenCheckPacketsGet => listen_count' = listen_count + 1]_vars
    /\ [][listen_count' # listen_count => ListenCheckPacketsGet]_vars
    /\ [](listen_count = Len(taken))

\* The chat loop took three packets: one was put back, two were mounted.
C18_Witness == command = "chat" /\ packet_count = 3 /\ Len(mount_log) = 2

\* C19: the pass that has mounted a message raises the new-message
\* notification for the owning session exactly when the active tab is not
\* that session's tab, and goes on to the next packet either way; no other
\* step raises that notification.
C19_NewMessageNotification ==
    /\ [][(pc = "mounted" /\ pc' # "mounted")
          => LET owner == OwnerCallsign(cur) IN
             /\ (note' = <<"new", owner>>) <=> (active # get_tab_id(owner))
             /\ note' \in {<<"new", owner>>, NoNote}
             /\ pc' = "loop"
             /\ app_state' = "running"]_vars
    /\ [][(note' # note /\ Len(note') = 2 /\ note'[1] = "new") => pc = "mounted"]_vars

\* A message of A was mounted while the tab of B was active, and the
\* notification names A.
C19_Witness ==
    /\ pc = "loop"
    /\ note = <<"new", "A">>
    /\ active = get_tab_id("B")
    /\ \E i \in 1..Len(mount_log) : mount_log[i].callsign = "A"

\* C20: a step that changes the desired filter changes nothing else of
\* the listen pipeline: the inbound queue, the display queue, the packet
\* view, the packet counter and the client's filter stay; and with the
\* filter changing at any time every packet on the display queue is
\* eventually taken and mounted by the display loop.
C20_FilterChangeKeepsPackets ==
    /\ [][filter' # filter
          => /\ packet_queue' = packet_queue
             /\ listen_queue' = listen_queue
             /\ packet_view' = packet_view
             /\ listen_count' = listen_count
             /\ client_filter' = client_filter
             /\ consumed' = consumed
             /\ taken' = taken]_vars
    /\ [](taken \o listen_queue = SelectSeq(consumed, Accepted))
    /\ \A uid \in 1..MaxRx :
          []((\E i \in 1..Len(listen_queue) : listen_queue[i].uid = uid)
             => <>(\E i \in 1..Len(taken) : taken[i].uid = uid))

\* The filter was changed with one packet displayed and another waiting on
\* the display queue.
C20_Witness ==
    /\ filter = <<",">>
    /\ Len(packet_view) = 1
    /\ Len(listen_queue) = 1

\* C21: a history grows only in the pass that takes a message packet,
\* and then it is the history of to_call for a packet from the operator and
\* of from_call otherwise, by the one entry of that packet, with every other
\* history as it was; the pass that mounts a message grows that history.
RoutedTo(packet) ==
    IF packet.from_call = CONF_callsign THEN packet.to_call ELSE packet.from_call

C21_OwnerRouting ==
    /\ [][\A c \in Correspondents :
            Len(children'[c]) > Len(children[c])
            => /\ Dequeues
               /\ Head_packet.kind = "msg"
               /\ c = RoutedTo(Head_packet)
               /\ Len(children'[c]) = Len(children[c]) + 1
               /\ children'[c][Len(children'[c])].packet = Head_packet
               /\ \A d \in Correspondents \ {c} : children'[d] = children[d]]_vars
    /\ [][(Dequeues /\ pc' = "mounted")
          => /\ RoutedTo(Head_packet) \in Correspondents
             /\ Len(children'[RoutedTo(Head_packet)])
                   = Len(children[RoutedTo(Head_packet)]) + 1]_vars

\* The history of A holds a message from A and the echo of a message the
\* operator sent to A.
C21_Witness ==
    /\ Len(children["A"]) = 2
    /\ \E i, j \in 1..2 :
          /\ children["A"][i].packet.from_call = "A"
          /\ children["A"][j].packet.from_call = CONF_callsign
          /\ children["A"][j].packet.to_call = "A"
    /\ children["B"] = <<>>

\* The number of places of the display path that hold packet m: the
\* display queue, the display loop (before the mount), the histories.
RECURSIVE CountIn(_, _)
CountIn(seq, m) ==
    IF seq = <<>> THEN 0
    ELSE (IF Head(seq) = m THEN 1 ELSE 0) + CountIn(Tail(seq), m)

Entries(callsign) == [i \in 1..Len(children[callsign]) |-> children[callsign][i].packet]

DisplayCount(m) ==
    CountIn(processed_queue, m) + (IF cur = m /\ pc # "mounted" THEN 1 ELSE 0)
        + CountIn(Entries("A"), m) + CountIn(Entries("B"), m)

\* C22: a submission makes one message packet from the operator to the
\* callsign of the active tab with the next message number and appends that
\* packet to the display queue and to the outbound queue; afterwards each
\* submitted packet is in one place of the display path and in one place of
\* the outbound path, unchanged; no more packets are handed to tx.send than
\* were submitted; the display loop and the TX thread leave each other's
\* state alone.
C22_SubmitFanOut ==
    /\ [][submitted' # submitted
          => \E m \in {submitted'[Len(submitted')]} :
                /\ submitted' = Append(submitted, m)
                /\ m.kind = "msg"
                /\ m.from_call = CONF_callsign
                /\ m.to_call = (IF active = NoTab THEN "" ELSE active[2])
                /\ m.msgNo = msg_counter + 1
                /\ msg_counter' = m.msgNo
                /\ processed_queue' = Append(processed_queue, m)
                /\ tx_queue' = Append(tx_queue, m)]_vars
    /\ [](\A i \in 1..Len(submitted) :
            /\ DisplayCount(submitted[i]) = 1
            /\ CountIn(handed, submitted[i]) + CountIn(tx_queue, submitted[i])
                  + (IF tx_cur = submitted[i] THEN 1 ELSE 0) = 1
            /\ \A j \in 1..Len(submitted) : submitted[i].msgNo = submitted[j].msgNo => i = j)
    /\ [](Len(handed) <= Len(submitted))
    /\ [][Dequeues \/ pc # pc' => UNCHANGED <<tx_queue, tx_pc, tx_cur, handed>>]_vars
    /\ [][tx_pc # tx_pc'
          => UNCHANGED <<processed_queue, children, packet_count, pc, cur, app_state>>]_vars

\* The echo of a message to A is in A's history while the packet still
\* waits on the outbound queue: it was displayed before any send.
C22_Witness ==
    /\ Len(submitted) = 1
    /\ tx_queue = submitted
    /\ handed = <<>>
    /\ CountIn(Entries("A"), submitted[1]) = 1

\* C23: no two entries of the histories, of one session or of two, carry
\* the same id.
C23_EntryKeysUnique ==
    \A c, d \in Correspondents :
        \A i \in 1..Len(children[c]) : \A j \in 1..Len(children[d]) :
            children[c][i].id = children[d][j].id => (c = d /\ i = j)

\* C24: a completed tick of the listen check_connection calls set_filter
\* exactly when the filter the client holds differs from the desired filter;
\* with the two equal it issues no call.
C24_ReconcileIffDiffers ==
    [][ticks' = ticks + 1 => (filter_set' <=> (ActiveFilterText # filter))]_vars

\* C25: the pass that takes an acknowledgement matching no entry raises
\* no ack notification.
C25_AckNoteOnlyOnMatch ==
    [][(/\ Dequeues
        /\ Head_packet.kind = "ack"
        /\ Matches(get_packet_id(Head_packet)) = {})
       => ~(Len(note') = 2 /\ note'[1] = "ack")]_vars

\* ------------------------------------------------------------------ C26
\* The accepted packets the classifier has taken so far, in order.
AcceptedConsumed == SelectSeq(consumed, Accepted)

\* C26 (optional packet logging): the classifier hands an accepted packet to
\* the packet log only when the command was run with --log-packets, and
\* every accepted packet is forwarded to the display queue either way.
C26_LogOnlyWhenEnabled ==
    /\ (~log_option => logged = <<>>)
    /\ (log_option => logged = AcceptedConsumed)
    /\ taken \o listen_queue = AcceptedConsumed
\* ------------------------------------------------------------------ C27
\* C27 (per-session order preservation): the message packets of one session
\* are appended to its history in the order they were put on the display
\* queue (uids are given in put order), a packet that was put back included.
C27_SessionOrderPreserved ==
    \A callsign \in Correspondents :
        LET uids == HistoryUids(callsign) IN
        \A i, j \in 1..Len(uids) : i < j => uids[i] < uids[j]
\* ------------------------------------------------------------------ C28
\* C28 (focus stability): a pass of the display loop that takes a packet
\* while a session is focused leaves the active tab, and with it the
\* destination of the next submitted message, as it was.
C28_FocusStable == [][(Dequeues /\ active # NoTab) => active' = active]_vars
\* ------------------------------------------------------------------ C29
\* Every packet the listen display loop has taken, as the entry it was
\* mounted as: the k-th one labelled k.
ListenEntries == [k \in 1..Len(taken) |-> ListenPacketDisplay(taken[k], k)]

====
